---- MODULE Spec2Model ----
(***************************************************************************)
(* Model of paddlemm/models/sgraf.py: construction of the SGRAF network,   *)
(* the control flow of EncoderSimilarity.forward (caption loop and the     *)
(* inner graph-reasoning loop) and the two ways of obtaining the loss      *)
(* (SGRAF.forward, and forward_emb / forward_sim followed by the           *)
(* criterion).                                                             *)
(*                                                                         *)
(* Tensors are symbolic terms: a layer of the framework (Linear, GRU,      *)
(* softmax, l2norm, ...) is a deterministic function of its input, so the  *)
(* result of a layer is the record of what it was applied to.  Dropout is  *)
(* the only source of nondeterminism: in training mode every dropout call  *)
(* draws a mask, in evaluation mode the mask is the identity (0).  A       *)
(* training step computes the loss with SGRAF.forward; in evaluation mode  *)
(* the same batch is also taken through forward_emb and forward_sim.       *)
(* Python indices are kept 0-based; sequences are 1-based, so element i of *)
(* a Python list is element i+1 of the sequence.                           *)
(***************************************************************************)
EXTENDS Integers, Sequences, FiniteSets, TLC

\* ---- bounds of the model ------------------------------------------------
MaxImage   == 2     \* images in a batch: 1..MaxImage
MaxCaption == 2     \* captions in a batch: 1..MaxCaption
MaxLen     == 2     \* padded caption length L
MaxStep    == 2     \* sgr_step ranges over 0..MaxStep

ModuleNames == {"SGR", "SAF", "AVE", "XYZ"}
DefaultModuleName == "AVE"
Paths == {"forward", "two_stage"}

NoEncoder == [constructed |-> FALSE]
NoError   == "none"

VARIABLES
    module_name, sgr_step, training, batch,      \* constructor arguments, mode, the batch
    pc, raised, sim_enc,                         \* control, raised exception, self.sim_enc
    caller, todo, calls,                         \* running path, paths left, sublayer call log
    emb,                                         \* (img_embs, cap_embs, lengths)
    n_image, n_caption, img_glo,                 \* locals of EncoderSimilarity.forward
    it_outer, it_inner, i, n_word,
    sim_emb, sim_vec, sim_all,
    sims, loss                                   \* results per path

vars == <<module_name, sgr_step, training, batch, pc, raised, sim_enc,
          caller, todo, calls, emb, n_image, n_caption, img_glo,
          it_outer, it_inner, i, n_word, sim_emb, sim_vec, sim_all, sims, loss>>

config == <<module_name, sgr_step, training, batch>>
locals == <<n_image, n_caption, img_glo, it_outer, it_inner, i, n_word,
            sim_emb, sim_vec, sim_all>>

\* a dropout call: identity mask in evaluation mode, any mask when training
DropMasks == IF training THEN {0, 1} ELSE {0}

\* ---- construction -------------------------------------------------------
\* f'SGR_{i}'
SublayerName(k) == "SGR_" \o ToString(k)

\* nn.Sequential() filled by add_sublayer(f'SGR_{i}', GraphReasoning(sim_dim)):
\* the sublayers in insertion order, each under its name
SequentialOf(step) ==
    [k \in 1..step |-> [name |-> SublayerName(k - 1), class |-> "GraphReasoning"]]

\* a constructor whose final else branch builds the SAF module instead of raising
EncoderSimilarityInitNoRaise(name, step) ==
    IF name = "SGR"
    THEN [error |-> NoError,
          obj |-> [constructed |-> TRUE, module_name |-> name,
                   SGR_module |-> SequentialOf(step)]]
    ELSE [error |-> NoError,
          obj |-> [constructed |-> TRUE, module_name |-> name,
                   SAF_module |-> [class |-> "AttentionFiltration"]]]

\* EncoderSimilarity.__init__: the object with the module attribute it sets
\* (an attribute is a field of the record), or the exception it raises
EncoderSimilarityInit(name, step) ==
    IF name = "SGR"
    THEN [error |-> NoError,
          obj |-> [constructed |-> TRUE, module_name |-> name,
                   SGR_module |-> SequentialOf(step)]]
    ELSE IF name = "SAF"
    THEN [error |-> NoError,
          obj |-> [constructed |-> TRUE, module_name |-> name,
                   SAF_module |-> [class |-> "AttentionFiltration"]]]
    ELSE [error |-> "ValueError: Invalid input of module_name",
          obj |-> NoEncoder]

\* ---- tensors as symbolic terms -------------------------------------------
\* EncoderImage.forward: fc, then l2norm over the last axis
EncoderImage(images) ==
    [m \in DOMAIN images |-> [op |-> "img_enc", input |-> images[m]]]

\* EncoderText.forward: embed, dropout, GRU over the first lengths[c] tokens,
\* average of the two directions, l2norm
EncoderText(captions, lengths, mask) ==
    [c \in DOMAIN captions |->
        [w \in DOMAIN captions[c] |->
            [op |-> "txt_enc", tokens |-> captions[c], length |-> lengths[c],
             pos |-> w - 1, drop |-> mask]]]

\* VisualSA.forward on (img_emb, mean of img_emb)
VisualSA(local, mask) ==
    [m \in DOMAIN local |-> [op |-> "VisualSA", local |-> local[m], drop |-> mask]]

\* TextSA.forward on (cap_i, mean of cap_i)
TextSA(local, mask) == [op |-> "TextSA", local |-> local, drop |-> mask]

\* SCAN_attention(cap_i_expand, img_emb), squared difference, sim_tranloc_w, l2norm:
\* one local alignment per word of the caption
SimLoc(img, cap_i) ==
    [w \in DOMAIN cap_i |-> [op |-> "sim_loc", img |-> img, cap |-> cap_i, word |-> w - 1]]

\* squared difference of the global vectors, sim_tranglo_w, l2norm
SimGlo(glo, cap_glo_i) == [op |-> "sim_glo", img_glo |-> glo, cap_glo |-> cap_glo_i]

\* paddle.concat([sim_glo.unsqueeze(1), sim_loc], 1): node 0 is the global alignment.
\* A graph is its L+1 initial nodes and the reasoning layers applied to them so far.
ConcatGraph(glo, loc) == [nodes |-> <<glo>> \o loc, reasoned |-> <<>>]

\* GraphReasoning.forward: every node is recomputed from all nodes, shape kept
GraphReasoning(layer, g) == [g EXCEPT !.reasoned = Append(@, layer)]

\* sim_emb[:, k, :]
NodeAt(g, k) ==
    IF g.reasoned = <<>> THEN g.nodes[k + 1]
    ELSE [op |-> "node", index |-> k, of |-> g]

\* AttentionFiltration.forward: gate weights over the nodes, weighted sum, l2norm
AttentionFiltration(g) == [op |-> "AttentionFiltration", input |-> g.nodes]

\* self.sigmoid(self.sim_eval_w(sim_vec))
SimEval(vec) == [op |-> "sim_eval", vec |-> vec]

\* paddle.concat(sim_all, 1): the columns side by side, one row per image
ConcatColumns(columns, rows) ==
    [m \in 1..rows |-> [c \in 1..Len(columns) |-> columns[c][m]]]

\* self.criterion(sims)
Criterion(s) == [op |-> "ContrastiveLoss", sims |-> s]

\* a lookup that returns the first sublayer whatever the name
SublayerFirst(seq, name) == seq[1]

\* self.SGR_module[name]
Sublayer(seq, name) ==
    CHOOSE e \in {seq[k] : k \in DOMAIN seq} : e.name = name

\* the batches a data loader can hand over
Batches ==
    { [image_feat |-> [m \in 1..ni |-> m],
       text_token |-> [c \in DOMAIN lens |-> [w \in 1..MaxLen |-> 10 * c + w]],
       text_len   |-> lens] :
          ni \in 1..MaxImage,
          lens \in UNION { [1..k -> 1..MaxLen] : k \in 1..MaxCaption } }

Init ==
    /\ module_name \in ModuleNames
    /\ sgr_step \in 0..MaxStep
    /\ training \in BOOLEAN
    /\ batch \in Batches
    /\ pc = "construct"
    /\ raised = NoError
    /\ sim_enc = NoEncoder
    /\ caller = "none"
    /\ todo = IF training THEN {"forward"} ELSE Paths
    /\ calls = [p \in Paths |-> <<>>]
    /\ emb = <<>>
    /\ n_image = 0 /\ n_caption = 0 /\ img_glo = <<>>
    /\ it_outer = 0 /\ it_inner = 0 /\ i = 0 /\ n_word = 0
    /\ sim_emb = <<>> /\ sim_vec = <<>> /\ sim_all = <<>>
    /\ sims = [p \in Paths |-> <<>>]
    /\ loss = [p \in Paths |-> <<>>]

\* SGRAF.__init__: img_enc, txt_enc, then sim_enc (which may raise), criterion
Construct ==
    /\ pc = "construct"
    /\ LET r == EncoderSimilarityInit(module_name, sgr_step) IN
         /\ sim_enc' = r.obj
         /\ raised' = r.error
         /\ pc' = IF r.error = NoError THEN "ready" ELSE "raised"
    /\ UNCHANGED <<config, caller, todo, calls, emb, locals, sims, loss>>

\* ---- SGRAF.forward and the two-stage path --------------------------------
\* SGRAF.forward up to the call of self.sim_enc
Forward ==
    /\ pc = "ready" /\ "forward" \in todo
    /\ \E mask \in DropMasks :
         emb' = [img_embs |-> EncoderImage(batch.image_feat),
                 cap_embs |-> EncoderText(batch.text_token, batch.text_len, mask),
                 lengths  |-> batch.text_len]
    /\ calls' = [calls EXCEPT !["forward"] = <<"img_enc", "txt_enc">>]
    /\ caller' = "forward"
    /\ pc' = "sim_enc"
    /\ UNCHANGED <<config, raised, sim_enc, todo, locals, sims, loss>>

\* a forward_emb that returns the padded lengths instead of batch['text_len']
ForwardEmbPaddedLengths ==
    /\ pc = "ready" /\ "two_stage" \in todo
    /\ \E mask \in DropMasks :
         emb' = [img_embs |-> EncoderImage(batch.image_feat),
                 cap_embs |-> EncoderText(batch.text_token, batch.text_len, mask),
                 lengths  |-> [c \in DOMAIN batch.text_token |-> Len(batch.text_token[c])]]
    /\ calls' = [calls EXCEPT !["two_stage"] = <<"img_enc", "txt_enc">>]
    /\ caller' = "two_stage"
    /\ pc' = "emb_returned"
    /\ UNCHANGED <<config, raised, sim_enc, todo, locals, sims, loss>>

\* SGRAF.forward_emb
ForwardEmb ==
    /\ pc = "ready" /\ "two_stage" \in todo
    /\ \E mask \in DropMasks :
         emb' = [img_embs |-> EncoderImage(batch.image_feat),
                 cap_embs |-> EncoderText(batch.text_token, batch.text_len, mask),
                 lengths  |-> batch.text_len]
    /\ calls' = [calls EXCEPT !["two_stage"] = <<"img_enc", "txt_enc">>]
    /\ caller' = "two_stage"
    /\ pc' = "emb_returned"
    /\ UNCHANGED <<config, raised, sim_enc, todo, locals, sims, loss>>

\* SGRAF.forward_sim up to the call of self.sim_enc
ForwardSim ==
    /\ pc = "emb_returned"
    /\ pc' = "sim_enc"
    /\ UNCHANGED <<config, raised, sim_enc, caller, todo, calls, emb, locals, sims, loss>>

\* ---- EncoderSimilarity.forward ------------------------------------------
\* entry: shapes, the enhanced global images, the caption iterator
SimEnter ==
    /\ pc = "sim_enc"
    /\ calls' = [calls EXCEPT ![caller] = Append(@, "sim_enc")]
    /\ sim_all' = <<>>
    /\ n_image' = Len(emb.img_embs)
    /\ n_caption' = Len(emb.cap_embs)
    /\ \E mask \in DropMasks : img_glo' = VisualSA(emb.img_embs, mask)
    /\ it_outer' = 0
    /\ pc' = "outer_next"
    /\ UNCHANGED <<config, raised, sim_enc, caller, todo, emb, it_inner, i, n_word,
                   sim_emb, sim_vec, sims, loss>>

\* a caption loop that continues from the loop variable (i = i + 1; i < n_caption)
OuterNextFromLoopVariable ==
    /\ pc = "outer_next"
    /\ LET nxt == IF it_outer = 0 THEN 0 ELSE i + 1 IN
         IF nxt < n_caption
         THEN /\ i' = nxt /\ it_outer' = it_outer + 1 /\ pc' = "body"
         ELSE /\ pc' = "concat" /\ UNCHANGED <<i, it_outer>>
    /\ UNCHANGED <<config, raised, sim_enc, caller, todo, calls, emb, n_image, n_caption,
                   img_glo, it_inner, n_word, sim_emb, sim_vec, sim_all, sims, loss>>

\* for i in range(n_caption): the range iterator hands out the next index,
\* whatever the loop variable was rebound to in the body
OuterNext ==
    /\ pc = "outer_next"
    /\ IF it_outer < n_caption
       THEN /\ i' = it_outer /\ it_outer' = it_outer + 1 /\ pc' = "body"
       ELSE /\ pc' = "concat" /\ UNCHANGED <<i, it_outer>>
    /\ UNCHANGED <<config, raised, sim_enc, caller, todo, calls, emb, n_image, n_caption,
                   img_glo, it_inner, n_word, sim_emb, sim_vec, sim_all, sims, loss>>

\* the i-th sentence, its global vector, the alignments and their graph;
\* then the branch on module_name
Body ==
    /\ pc = "body"
    /\ n_word' = emb.lengths[i + 1]
    /\ \E mask \in DropMasks :
         LET cap_i     == SubSeq(emb.cap_embs[i + 1], 1, n_word')
             cap_glo_i == TextSA(cap_i, mask)
         IN sim_emb' = [m \in 1..n_image |->
                ConcatGraph(SimGlo(img_glo[m], cap_glo_i), SimLoc(emb.img_embs[m], cap_i))]
    /\ IF sim_enc.module_name = "SGR"
       THEN /\ it_inner' = 0
            /\ pc' = "inner_next"
            /\ UNCHANGED sim_vec
       ELSE /\ sim_vec' = [m \in 1..n_image |-> AttentionFiltration(sim_emb'[m])]
            /\ pc' = "score"
            /\ UNCHANGED it_inner
    /\ UNCHANGED <<config, raised, sim_enc, caller, todo, calls, emb, n_image, n_caption,
                   img_glo, it_outer, i, sim_all, sims, loss>>

\* for i in range(len(self.SGR_module)), and sim_vec = sim_emb[:, 0, :] after it
InnerNext ==
    /\ pc = "inner_next"
    /\ IF it_inner < Len(sim_enc.SGR_module)
       THEN /\ i' = it_inner /\ it_inner' = it_inner + 1 /\ pc' = "inner_body"
            /\ UNCHANGED sim_vec
       ELSE /\ sim_vec' = [m \in 1..n_image |-> NodeAt(sim_emb[m], 0)]
            /\ pc' = "score"
            /\ UNCHANGED <<i, it_inner>>
    /\ UNCHANGED <<config, raised, sim_enc, caller, todo, calls, emb, n_image, n_caption,
                   img_glo, it_outer, n_word, sim_emb, sim_all, sims, loss>>

\* sim_emb = self.SGR_module[f'SGR_{i}'](sim_emb)
InnerBody ==
    /\ pc = "inner_body"
    /\ sim_emb' = [m \in 1..n_image |->
           GraphReasoning(Sublayer(sim_enc.SGR_module, SublayerName(i)), sim_emb[m])]
    /\ pc' = "inner_next"
    /\ UNCHANGED <<config, raised, sim_enc, caller, todo, calls, emb, n_image, n_caption,
                   img_glo, it_outer, it_inner, i, n_word, sim_vec, sim_all, sims, loss>>

\* sim_i = sigmoid(sim_eval_w(sim_vec)); sim_all.append(sim_i)
Score ==
    /\ pc = "score"
    /\ sim_all' = Append(sim_all, [m \in 1..n_image |-> SimEval(sim_vec[m])])
    /\ pc' = "outer_next"
    /\ UNCHANGED <<config, raised, sim_enc, caller, todo, calls, emb, n_image, n_caption,
                   img_glo, it_outer, it_inner, i, n_word, sim_emb, sim_vec, sims, loss>>

\* sim_all = paddle.concat(sim_all, 1); return sim_all
Concat ==
    /\ pc = "concat"
    /\ sims' = [sims EXCEPT ![caller] = ConcatColumns(sim_all, n_image)]
    /\ pc' = "sim_returned"
    /\ UNCHANGED <<config, raised, sim_enc, caller, todo, calls, emb, locals, loss>>

\* SGRAF.forward: loss = self.criterion(sims); return loss
ForwardLoss ==
    /\ pc = "sim_returned" /\ caller = "forward"
    /\ loss' = [loss EXCEPT !["forward"] = Criterion(sims["forward"])]
    /\ calls' = [calls EXCEPT !["forward"] = Append(@, "criterion")]
    /\ todo' = todo \ {"forward"}
    /\ pc' = "ready"
    /\ UNCHANGED <<config, raised, sim_enc, caller, emb, locals, sims>>

\* SGRAF.forward_sim returns sims; the criterion is applied to them
TwoStageLoss ==
    /\ pc = "sim_returned" /\ caller = "two_stage"
    /\ loss' = [loss EXCEPT !["two_stage"] = Criterion(sims["two_stage"])]
    /\ calls' = [calls EXCEPT !["two_stage"] = Append(@, "criterion")]
    /\ todo' = todo \ {"two_stage"}
    /\ pc' = "ready"
    /\ UNCHANGED <<config, raised, sim_enc, caller, emb, locals, sims>>

Next ==
    \/ Construct
    \/ Forward \/ ForwardEmb \/ ForwardSim
    \/ SimEnter \/ OuterNext \/ Body \/ InnerNext \/ InnerBody \/ Score \/ Concat
    \/ ForwardLoss \/ TwoStageLoss

Spec == Init /\ [][Next]_vars

\* ---- properties ----------------------------------------------------------
InSimEnc == pc \in {"outer_next", "body", "inner_next", "inner_body", "score", "concat"}

\* the global alignment a similarity vector was computed from
GloOf(vec) ==
    CASE vec.op = "sim_glo" -> vec
      [] vec.op = "node" -> vec.of.nodes[1]
      [] vec.op = "AttentionFiltration" -> vec.input[1]

\* the local alignments a similarity vector was computed from
LocOf(vec) ==
    CASE vec.op = "sim_glo" -> <<>>
      [] vec.op = "node" -> Tail(vec.of.nodes)
      [] vec.op = "AttentionFiltration" -> Tail(vec.input)

\* entry e is the similarity of image m (1-based) to caption c (1-based),
\* computed from cap_emb[c, :cap_lens[c], :]
IsSimilarityOf(e, m, c) ==
    LET slice == SubSeq(emb.cap_embs[c], 1, batch.text_len[c]) IN
      /\ e.op = "sim_eval"
      /\ GloOf(e.vec).cap_glo.local = slice
      /\ GloOf(e.vec).img_glo.local = emb.img_embs[m]
      /\ \A w \in DOMAIN LocOf(e.vec) :
            LocOf(e.vec)[w].cap = slice /\ LocOf(e.vec)[w].img = emb.img_embs[m]

\* C1: EncoderSimilarity.forward returns an (n_image, n_caption) matrix whose
\* column c holds the similarity of every image to caption c, computed from
\* cap_emb[c, :cap_lens[c], :]; the caption loop takes the indices
\* 0..n_caption-1 once each and in order, in SGR and in SAF mode and for every
\* sgr_step, although the inner loop rebinds i.
C1_CaptionLoop ==
    /\ InSimEnc =>
         /\ n_image = Len(batch.image_feat) /\ n_caption = Len(batch.text_token)
         /\ Len(sim_all) = IF pc \in {"outer_next", "concat"} THEN it_outer ELSE it_outer - 1
         /\ pc = "concat" => Len(sim_all) = n_caption
         /\ pc = "body" => i = Len(sim_all)
         /\ \A c \in 1..Len(sim_all) :
               /\ DOMAIN sim_all[c] = 1..n_image
               /\ \A m \in 1..n_image : IsSimilarityOf(sim_all[c][m], m, c)
    /\ pc = "sim_returned" =>
         /\ DOMAIN sims[caller] = 1..Len(batch.image_feat)
         /\ \A m \in 1..Len(batch.image_feat) :
               /\ DOMAIN sims[caller][m] = 1..Len(batch.text_token)
               /\ \A c \in 1..Len(batch.text_token) :
                     IsSimilarityOf(sims[caller][m][c], m, c)

C1_Witness ==
    /\ pc = "sim_returned"
    /\ module_name = "SGR" /\ sgr_step = 2
    /\ Len(batch.image_feat) = 2
    /\ batch.text_len = <<1, 2>>
    /\ Len(sims[caller][2]) = 2

\* C2: constructing EncoderSimilarity with 'SGR', 'SAF' or 'AVE' (the default
\* module_name) succeeds and yields an encoder.
C2_DocumentedNamesConstruct ==
    (pc # "construct" /\ module_name \in {"SGR", "SAF", DefaultModuleName}) =>
        (raised = NoError /\ sim_enc.constructed)

CallOrder == <<"img_enc", "txt_enc", "sim_enc", "criterion">>

\* C4: with dropout disabled, SGRAF.forward returns the criterion of the
\* similarity matrix of the two-stage path (forward_emb, forward_sim); in both
\* paths img_enc and txt_enc run before sim_enc, which runs before the
\* criterion; sim_enc is handed the batch's text_len unchanged.
C4_ForwardIsTwoStage ==
    /\ (~training /\ pc = "ready" /\ todo = {}) =>
          /\ loss["forward"] = loss["two_stage"]
          /\ loss["forward"] = Criterion(sims["two_stage"])
    /\ \A p \in Paths :
          /\ calls[p] = SubSeq(CallOrder, 1, Len(calls[p]))
          /\ loss[p] # <<>> => calls[p] = CallOrder
    /\ (InSimEnc \/ pc \in {"sim_enc", "emb_returned"}) => emb.lengths = batch.text_len

C4_Witness ==
    /\ ~training /\ pc = "ready" /\ todo = {}
    /\ loss["two_stage"].op = "ContrastiveLoss"
    /\ Len(loss["forward"].sims) = 2
    /\ batch.text_len = <<2, 1>>

\* C5: in SGR mode every caption's graph goes through exactly sgr_step
\* GraphReasoning layers, SGR_0, SGR_1, ..., SGR_{sgr_step-1} in this order, each
\* once on the output of the one before, and the similarity vector is node 0
\* of the last output; with sgr_step = 0 it is the unreasoned sim_glo.
C5_ReasoningOrder ==
    /\ (pc \in {"inner_next", "inner_body"} /\ sim_enc.module_name = "SGR") =>
          \A m \in 1..n_image :
            LET done == IF pc = "inner_next" THEN it_inner ELSE it_inner - 1 IN
              /\ Len(sim_emb[m].reasoned) = done
              /\ \A k \in 1..done : sim_emb[m].reasoned[k].name = SublayerName(k - 1)
    /\ (pc = "score" /\ sim_enc.module_name = "SGR") =>
          \A m \in 1..n_image :
            IF sgr_step = 0
            THEN /\ sim_vec[m].op = "sim_glo"
                 /\ sim_vec[m] = sim_emb[m].nodes[1]
            ELSE /\ sim_vec[m].op = "node" /\ sim_vec[m].index = 0
                 /\ sim_vec[m].of.nodes[1].op = "sim_glo"
                 /\ sim_vec[m].of.reasoned =
                       [k \in 1..sgr_step |->
                           [name |-> SublayerName(k - 1), class |-> "GraphReasoning"]]

C5_Witness ==
    /\ pc = "score" /\ sim_enc.module_name = "SGR" /\ sgr_step = 2
    /\ i = 1 /\ it_outer = 2
    /\ Len(sim_vec[1].of.reasoned) = 2
====
